---------------------------- MODULE Spec2Model ----------------------------
(***************************************************************************)
(* Two-view geometry estimation bindings:                                  *)
(*   essential_matrix_estimation   (src/estimators/essential_matrix.cc)    *)
(*   fundamental_matrix_estimation (src/estimators/fundamental_matrix.cc)  *)
(*                                                                         *)
(* Each host thread runs calls of the two operations statement by          *)
(* statement.  The shared state is the host interpreter lock (gil) and the *)
(* pseudorandom generator (prng).  Points are one-dimensional and a model  *)
(* matrix is a rational offset d between the two views: a correspondence   *)
(* (x1, x2) satisfies the model exactly when x2 - x1 = d.  Real numbers    *)
(* are exact rationals <<numerator, denominator>> in lowest terms.         *)
(***************************************************************************)
EXTENDS Integers, Sequences, FiniteSets, TLC

VARIABLES pc, args, frame, eng, result, live, guards, gil, prng, memo

vars == <<pc, args, frame, eng, result, live, guards, gil, prng, memo>>

(***************************************************************************)
(* Bounds of the model.                                                    *)
(***************************************************************************)
MaxLen == 8

MaxTrials == 3

Threads == {"t1", "t2"}

NoThread == "none"

(***************************************************************************)
(* Exact rational arithmetic standing for the code's double arithmetic.    *)
(***************************************************************************)
Abs(x) == IF x < 0 THEN -x ELSE x

RECURSIVE GCD(_, _)
GCD(a, b) == IF b = 0 THEN a ELSE GCD(b, a % b)

Rat(n, d) ==
  LET g == GCD(Abs(n), Abs(d))
      s == IF d < 0 THEN -1 ELSE 1
  IN  <<(s * n) \div g, (s * d) \div g>>

RatAdd(a, b) == Rat(a[1] * b[2] + b[1] * a[2], a[2] * b[2])

RatSub(a, b) == Rat(a[1] * b[2] - b[1] * a[2], a[2] * b[2])

RatMul(a, b) == Rat(a[1] * b[1], a[2] * b[2])

RatDiv(a, b) == Rat(a[1] * b[2], a[2] * b[1])

RatAbs(a) == <<Abs(a[1]), a[2]>>

RatLe(a, b) == a[1] * b[2] <= b[1] * a[2]

RatLt(a, b) == a[1] * b[2] < b[1] * a[2]

RECURSIVE Pow(_, _)
Pow(b, e) == IF e = 0 THEN 1 ELSE b * Pow(b, e - 1)


(***************************************************************************)
(* Camera capability: CamFromImg maps a pixel to a normalized coordinate,  *)
(* MeanFocalLength is the focal length.  A camera is [f, c].               *)
(***************************************************************************)
CamFromImg(camera, x) == RatDiv(RatSub(x, <<camera.c, 1>>), <<camera.f, 1>>)

MeanFocalLength(camera) == <<camera.f, 1>>

(***************************************************************************)
(* The pseudorandom generator: a 3-bit linear congruential generator.      *)
(* SetPRNGSeed installs the state of the given seed; a draw returns the    *)
(* current state and advances it.                                          *)
(***************************************************************************)
PRNGStates == 0 .. 7

SetPRNGSeed(seed) == seed % 8

PRNGAdvance(x) == (5 * x + 3) % 8

(***************************************************************************)
(* Estimators.  The essential path uses the 5-point estimator in both      *)
(* roles, the fundamental path the 7-point estimator for hypotheses and    *)
(* the 8-point estimator for local refinement.                             *)
(***************************************************************************)
FivePointMinSamples == 5

SevenPointMinSamples == 7

EightPointMinSamples == 8

FivePointMaxModels == 10

SevenPointMaxModels == 3

EssentialEstimators == [minimal |-> "5pt", local |-> "5pt"]

FundamentalEstimators == [minimal |-> "7pt", local |-> "8pt"]

Estimators(op) == IF op = "E" THEN EssentialEstimators ELSE FundamentalEstimators

kMinNumSamples(est) ==
  CASE est = "5pt" -> FivePointMinSamples
    [] est = "7pt" -> SevenPointMinSamples
    [] est = "8pt" -> EightPointMinSamples

Offset(pair) == RatSub(pair[2], pair[1])

RECURSIVE Distinct(_)
Distinct(s) ==
  IF s = <<>> THEN <<>>
  ELSE LET rest == Distinct(Tail(s))
       IN  <<Head(s)>> \o SelectSeq(rest, LAMBDA y : y # Head(s))

Degenerate(X) == \E i, j \in 1 .. Len(X) : i < j /\ X[i] = X[j]

RECURSIVE RatSum(_)
RatSum(s) == IF s = <<>> THEN <<0, 1>> ELSE RatAdd(Head(s), RatSum(Tail(s)))

\* Closed-form solver: zero candidates on a degenerate sample, otherwise the
\* distinct roots, at most maxModels of them.
SolveRoots(X, maxModels) ==
  IF Degenerate(X) THEN <<>>
  ELSE Distinct([i \in 1 .. (IF Len(X) < maxModels THEN Len(X) ELSE maxModels)
                   |-> Offset(X[i])])

\* Linear least-squares fit over the given correspondences.
LeastSquares(X) == <<RatDiv(RatSum([i \in 1 .. Len(X) |-> Offset(X[i])]), <<Len(X), 1>>)>>

EstimateModels(est, X) ==
  IF Len(X) < kMinNumSamples(est) THEN <<>>
  ELSE CASE est = "5pt" -> SolveRoots(X, FivePointMaxModels)
         [] est = "7pt" -> SolveRoots(X, SevenPointMaxModels)
         [] est = "8pt" -> LeastSquares(X)

(***************************************************************************)
(* Error scorer and support measurement.                                   *)
(***************************************************************************)
Residual(M, pair) == LET r == RatSub(Offset(pair), M) IN RatMul(r, r)

InlierMask(M, X, max_error) ==
  [i \in 1 .. Len(X) |->
     IF RatLe(Residual(M, X[i]), RatMul(max_error, max_error)) THEN 1 ELSE 0]

RECURSIVE SumSeq(_)
SumSeq(s) == IF s = <<>> THEN 0 ELSE Head(s) + SumSeq(Tail(s))

MeasureSupport(M, X, max_error) ==
  LET mask == InlierMask(M, X, max_error)
  IN  [num_inliers |-> SumSeq(mask),
       residual_sum |-> RatSum([i \in 1 .. Len(X) |->
                          IF mask[i] = 1 THEN Residual(M, X[i]) ELSE <<0, 1>>])]

\* Strictly better support: more inliers, ties broken by lower residual sum.
BetterSupport(s1, s2) ==
  \/ s1.num_inliers > s2.num_inliers
  \/ /\ s1.num_inliers = s2.num_inliers
     /\ RatLt(s1.residual_sum, s2.residual_sum)

(***************************************************************************)
(* Locally optimized RANSAC engine.  The engine state e holds the trial    *)
(* counter, the effective trial budget and the best model seen so far.     *)
(***************************************************************************)
NoModel == <<0, 1>>

NoSupport == [num_inliers |-> 0, residual_sum |-> <<0, 1>>]

InitialEngine(opts) ==
  [num_trials |-> 0, budget |-> opts.max_num_trials, found |-> FALSE,
   model |-> NoModel, support |-> NoSupport, mask |-> <<>>]

Min(a, b) == IF a < b THEN a ELSE b

Max(a, b) == IF a < b THEN b ELSE a

SelectByMask(X, mask) ==
  LET idx == SelectSeq([i \in 1 .. Len(X) |-> i], LAMBDA i : mask[i] # 0)
  IN  [j \in 1 .. Len(idx) |-> X[idx[j]]]

Accept(e, M, X, opts) ==
  [e EXCEPT !.found = TRUE, !.model = M,
            !.support = MeasureSupport(M, X, opts.max_error),
            !.mask = InlierMask(M, X, opts.max_error)]

\* Re-estimate on the best inlier set with the non-minimal estimator; a
\* refined model is accepted when its support is not worse.
RECURSIVE Refine(_, _, _, _)
Refine(e, cands, X, opts) ==
  IF cands = <<>> THEN e
  ELSE LET M == Head(cands)
           keep == BetterSupport(e.support, MeasureSupport(M, X, opts.max_error))
       IN  Refine(IF keep THEN e ELSE Accept(e, M, X, opts), Tail(cands), X, opts)

LocalOptimization(e, est, X, opts) ==
  Refine(e, EstimateModels(est.local, SelectByMask(X, e.mask)), X, opts)

\* Trials needed to have drawn one all-inlier minimal sample with probability
\* confidence; the per-trial miss probability is kept in tenths, rounded up.
AdaptiveEstimate(num_inliers, n, k, confidence, cap) ==
  IF n = 0 \/ num_inliers = 0 THEN cap
  ELSE LET nk == Pow(n, k)
           miss10 == (10 * (nk - Pow(num_inliers, k)) + nk - 1) \div nk
           enough == {T \in 1 .. cap :
                        Pow(miss10, T) * confidence[2]
                          <= (confidence[2] - confidence[1]) * Pow(10, T)}
       IN  IF enough = {} THEN cap
           ELSE CHOOSE T \in enough : \A U \in enough : T <= U

UpdateBudget(e, n, k, opts) ==
  [e EXCEPT !.budget =
     Min(opts.max_num_trials,
         Max(opts.min_num_trials,
             AdaptiveEstimate(e.support.num_inliers, n, k, opts.confidence,
                              opts.max_num_trials)))]

RECURSIVE ScoreCandidates(_, _, _, _, _)
ScoreCandidates(e, cands, est, X, opts) ==
  IF cands = <<>> THEN e
  ELSE LET M == Head(cands)
           better == \/ ~e.found
                     \/ BetterSupport(MeasureSupport(M, X, opts.max_error), e.support)
           e1 == IF better
                 THEN UpdateBudget(LocalOptimization(Accept(e, M, X, opts), est, X, opts),
                                   Len(X), kMinNumSamples(est.minimal), opts)
                 ELSE e
       IN  ScoreCandidates(e1, Tail(cands), est, X, opts)

\* A minimal sample without replacement: k consecutive correspondences,
\* cyclically, from the position the draw selects.
Sample(X, k, draw) == [j \in 1 .. k |-> X[((draw + j - 1) % Len(X)) + 1]]

CanSample(est, X) == Len(X) >= kMinNumSamples(est.minimal)

Trial(e, est, X, opts, draw) ==
  LET cands == EstimateModels(est.minimal, Sample(X, kMinNumSamples(est.minimal), draw))
      e1 == ScoreCandidates(e, cands, est, X, opts)
  IN  [e1 EXCEPT !.num_trials = e.num_trials + 1]

\* A trial on fewer correspondences than a minimal sample yields no candidate.
EmptyTrial(e) == [e EXCEPT !.num_trials = e.num_trials + 1]

TrialsLeft(e) == e.num_trials < e.budget

NoReport ==
  [success |-> FALSE, model |-> NoModel, support |-> NoSupport,
   inlier_mask |-> <<>>, num_trials |-> 0]

Report(e, n, opts) ==
  LET success == /\ e.found
                 /\ n > 0
                 /\ e.support.num_inliers * opts.min_inlier_ratio[2]
                      >= opts.min_inlier_ratio[1] * n
  IN  IF success
      THEN [success |-> TRUE, model |-> e.model, support |-> e.support,
            inlier_mask |-> e.mask, num_trials |-> e.num_trials]
      ELSE [NoReport EXCEPT !.num_trials = e.num_trials]

(***************************************************************************)
(* Pose recovery: the four algebraic candidates are scored by the number   *)
(* of correspondences triangulated with positive depth; the first          *)
(* candidate with the highest count is returned.                           *)
(***************************************************************************)
PoseCandidates(E) ==
  << [R |-> 1, t |-> E], [R |-> 1, t |-> RatSub(<<0, 1>>, E)],
     [R |-> -1, t |-> E], [R |-> -1, t |-> RatSub(<<0, 1>>, E)] >>

Triangulate(c, x1, x2) == RatMul(RatMul(<<c.R, 1>>, c.t), RatSub(x2, x1))

PositiveDepth(c, X1, X2) ==
  Cardinality({i \in 1 .. Len(X1) : RatLt(<<0, 1>>, Triangulate(c, X1[i], X2[i]))})

PoseFromEssentialMatrix(E, X1, X2) ==
  LET cs == PoseCandidates(E)
      best == CHOOSE i \in 1 .. 4 :
                /\ \A j \in 1 .. 4 : PositiveDepth(cs[j], X1, X2) <= PositiveDepth(cs[i], X1, X2)
                /\ \A j \in 1 .. (i - 1) : PositiveDepth(cs[j], X1, X2) < PositiveDepth(cs[i], X1, X2)
  IN  [R |-> cs[best].R, t |-> cs[best].t,
       points3D |-> [i \in 1 .. Len(X1) |-> Triangulate(cs[best], X1[i], X2[i])]]

\* Eigen::Quaterniond(rotation matrix)
Quaterniond(R) == <<"q", R>>

NoPose == [rotation |-> <<"q", 0>>, translation |-> <<0, 1>>]

(***************************************************************************)
(* The statements of the two binding functions.                            *)
(***************************************************************************)
\* Faulty variant: the check accepts a shorter first list.
SizesAtMost(points2D1, points2D2) == Len(points2D1) <= Len(points2D2)

\* THROW_CHECK_EQ(points2D1.size(), points2D2.size()) passes.
SizesEqual(points2D1, points2D2) == Len(points2D1) = Len(points2D2)

\* Image to world.
WorldPoints(camera, points2D) ==
  [idx \in 1 .. Len(points2D) |-> CamFromImg(camera, points2D[idx])]

\* Faulty variant: the sum of the two ratios is not halved.
WorldErrorUnhalved(max_error_px, camera1, camera2) ==
  RatAdd(RatDiv(max_error_px, MeanFocalLength(camera1)),
         RatDiv(max_error_px, MeanFocalLength(camera2)))

\* Compute world error.
WorldError(max_error_px, camera1, camera2) ==
  RatMul(<<1, 2>>, RatAdd(RatDiv(max_error_px, MeanFocalLength(camera1)),
                          RatDiv(max_error_px, MeanFocalLength(camera2))))

EssentialRansacOptions(options, camera1, camera2) ==
  [options EXCEPT !.max_error = WorldError(options.max_error, camera1, camera2)]

\* Faulty variant: the engine is given one trial more than the caller allowed.
OneMoreTrial(options) == [options EXCEPT !.max_num_trials = @ + 1]

FundamentalRansacOptions(options) == options

\* The scalar overloads assemble the options struct.
ScalarOptions(max_error_px, min_inlier_ratio, min_num_trials, max_num_trials, confidence) ==
  [max_error |-> max_error_px, min_inlier_ratio |-> min_inlier_ratio,
   min_num_trials |-> min_num_trials, max_num_trials |-> max_num_trials,
   confidence |-> confidence]

\* Faulty variant: the failure branch is never taken.
ReportNeverFailed(report) == FALSE

\* if (!report.success) return failure_dict;
ReportFailed(report) == ~report.success

\* Faulty variant: every world point is passed on, whatever the mask says.
AllPoints(world_points2D, inlier_mask) == world_points2D

\* The world points whose inlier-mask entry is set, in input order.
InlierPoints(world_points2D, inlier_mask) ==
  LET idx == SelectSeq([i \in 1 .. Len(inlier_mask) |-> i], LAMBDA i : inlier_mask[i] # 0)
  IN  [j \in 1 .. Len(idx) |-> world_points2D[idx[j]]]

\* Faulty variant: only the set entries are pushed.
ConvertMaskSetOnly(inlier_mask) == [i \in 1 .. SumSeq(inlier_mask) |-> TRUE]

\* Convert vector<char> to vector<bool>.
ConvertMask(inlier_mask) == [i \in 1 .. Len(inlier_mask) |-> inlier_mask[i] # 0]

FailureDict == [success |-> FALSE]

EssentialSuccessDict(E, cam2_from_cam1, num_inliers, inliers) ==
  [success |-> TRUE, E |-> E, cam2_from_cam1 |-> cam2_from_cam1,
   num_inliers |-> num_inliers, inliers |-> inliers]

FundamentalSuccessDict(F, num_inliers, inliers) ==
  [success |-> TRUE, F |-> F, num_inliers |-> num_inliers, inliers |-> inliers]

\* The interpreter-lock holder after py::gil_scoped_release is constructed
\* and after py::gil_scoped_acquire is constructed by thread t.
gil_scoped_release(t) == NoThread

\* Faulty variant: the success path does not take the lock back.
NoAcquire(t) == NoThread

gil_scoped_acquire(t) == t

\* Faulty variant: the generator is left as the previous call left it.
Unseeded(current) == current

\* The generator after the first statement of either function, SetPRNGSeed(0).
Seeded(current) == SetPRNGSeed(0)

(***************************************************************************)
(* Inputs.                                                                 *)
(***************************************************************************)
DefaultCamera == [f |-> 1, c |-> 0]

CameraSet == {[f |-> 1, c |-> 0], [f |-> 2, c |-> 2]}

DefaultOptions ==
  [max_error |-> <<4, 1>>, min_inlier_ratio |-> <<1, 4>>, min_num_trials |-> 0,
   max_num_trials |-> 0, confidence |-> <<9, 10>>]

RANSACOptionsSet ==
  {ScalarOptions(<<e, 1>>, r, tr[1], tr[2], c) :
     e \in {1, 2}, r \in {<<1, 4>>, <<1, 1>>},
     tr \in {<<1, MaxTrials>>, <<2, MaxTrials>>}, c \in {<<1, 2>>, <<9, 10>>}}

Ramp(n) == [i \in 1 .. n |-> <<4 * i, 1>>]

Const(n, x) == [i \in 1 .. n |-> <<x, 1>>]

\* Second-view points: the first-view ramp displaced by a pattern of offsets.
PatternOffset(pattern, i, n) ==
  CASE pattern = "clean" -> 2
    [] pattern = "mixed" -> IF i % 3 = 0 THEN 14 ELSE IF i % 3 = 1 THEN 2 ELSE 4
    [] pattern = "two" -> IF 2 * i <= n THEN 2 ELSE 6

Displaced(n, pattern) == [i \in 1 .. n |-> <<4 * i + PatternOffset(pattern, i, n), 1>>]

\* Correspondence lists of equal lengths, and lists one entry apart.
MatchedPairs ==
  {<<Ramp(n), Displaced(n, pattern)>> :
     n \in 0 .. MaxLen, pattern \in {"clean", "mixed", "two"}}
    \cup {<<Const(MaxLen, 4), Const(MaxLen, 6)>>}

MismatchedPairs ==
  {<<Ramp(n), Displaced(n + 1, "clean")>> : n \in 0 .. MaxLen}
    \cup {<<Ramp(n + 1), Displaced(n, "clean")>> : n \in 0 .. MaxLen}

CallArgs(Pairs, Cams, Opts) ==
  {[op |-> "F", points2D1 |-> p[1], points2D2 |-> p[2], camera1 |-> DefaultCamera,
    camera2 |-> DefaultCamera, options |-> o] : p \in Pairs, o \in Opts}
    \cup
  {[op |-> "E", points2D1 |-> p[1], points2D2 |-> p[2], camera1 |-> c1,
    camera2 |-> c2, options |-> o] :
     p \in Pairs, c1 \in Cams, c2 \in Cams, o \in Opts}

Inputs == CallArgs(MatchedPairs \cup MismatchedPairs, CameraSet, RANSACOptionsSet)

NoArgs ==
  [op |-> "F", points2D1 |-> <<>>, points2D2 |-> <<>>, camera1 |-> DefaultCamera,
   camera2 |-> DefaultCamera, options |-> DefaultOptions]

(***************************************************************************)
(* State.                                                                  *)
(***************************************************************************)
NoResult == <<>>

EmptyFrame ==
  [op |-> "F", points2D1 |-> <<>>, points2D2 |-> <<>>,
   camera1 |-> DefaultCamera, camera2 |-> DefaultCamera, options |-> DefaultOptions,
   world_points2D1 |-> <<>>, world_points2D2 |-> <<>>,
   ransac_options |-> DefaultOptions, report |-> NoReport,
   inlier_world_points2D1 |-> <<>>, inlier_world_points2D2 |-> <<>>,
   cam2_from_cam1 |-> NoPose, pose_runs |-> 0, inliers |-> <<>>,
   failure_dict_moved |-> FALSE]

NoGuards == [release |-> FALSE, acquire |-> FALSE, released |-> 0, acquired |-> 0]

NoMemo == [set |-> FALSE, in |-> NoArgs, out |-> NoResult]

Init ==
  /\ pc = [t \in Threads |-> "idle"]
  /\ args = [t \in Threads |-> NoArgs]
  /\ frame = [t \in Threads |-> EmptyFrame]
  /\ eng = [t \in Threads |-> InitialEngine(DefaultOptions)]
  /\ result = [t \in Threads |-> NoResult]
  /\ live = [t \in Threads |-> {}]
  /\ guards = [t \in Threads |-> NoGuards]
  /\ gil = NoThread
  /\ prng = SetPRNGSeed(0)
  /\ memo = NoMemo

(***************************************************************************)
(* Host side: a thread in host code takes the interpreter lock and calls   *)
(* one of the bound functions, by either overload.                         *)
(***************************************************************************)
Enter(t, a, first) ==
  /\ gil' = t
  /\ args' = [args EXCEPT ![t] = a]
  /\ frame' = [frame EXCEPT ![t] =
       [EmptyFrame EXCEPT !.op = a.op, !.points2D1 = a.points2D1,
                          !.points2D2 = a.points2D2, !.camera1 = a.camera1,
                          !.camera2 = a.camera2,
                          !.options = IF first = "seed" THEN a.options ELSE DefaultOptions]]
  /\ eng' = [eng EXCEPT ![t] = InitialEngine(DefaultOptions)]
  /\ result' = [result EXCEPT ![t] = NoResult]
  /\ guards' = [guards EXCEPT ![t] = NoGuards]
  /\ pc' = [pc EXCEPT ![t] = first]
  /\ UNCHANGED <<live, prng, memo>>

\* Overload taking the options struct.
CallOptions(t, In) ==
  /\ pc[t] = "idle"
  /\ gil = NoThread
  /\ \E a \in In : Enter(t, a, "seed")

\* Overload taking individual scalars.
CallScalars(t, In) ==
  /\ pc[t] = "idle"
  /\ gil = NoThread
  /\ \E a \in In : Enter(t, a, "scalars")

\* The scalar overload assembles the struct and delegates.
AssembleOptions(t) ==
  /\ pc[t] = "scalars"
  /\ frame' = [frame EXCEPT ![t].options =
       ScalarOptions(args[t].options.max_error, args[t].options.min_inlier_ratio,
                     args[t].options.min_num_trials, args[t].options.max_num_trials,
                     args[t].options.confidence)]
  /\ pc' = [pc EXCEPT ![t] = "seed"]
  /\ UNCHANGED <<args, eng, result, live, guards, gil, prng, memo>>

(***************************************************************************)
(* Unsynchronized access to the generator.  A draw or a seeding by t       *)
(* races with another thread that is about to seed or to draw; a racing    *)
(* access may leave the generator in any state and return any value.       *)
(***************************************************************************)
DrawPending(u) ==
  /\ pc[u] = "estimate"
  /\ TrialsLeft(eng[u])
  /\ CanSample(Estimators(frame[u].op), frame[u].world_points2D1)

Racing(t) == \E u \in Threads \ {t} : pc[u] = "seed" \/ DrawPending(u)

Seed(t) ==
  /\ pc[t] = "seed"
  /\ prng' \in (IF Racing(t) THEN PRNGStates ELSE {Seeded(prng)})
  /\ pc' = [pc EXCEPT ![t] = "check"]
  /\ UNCHANGED <<args, frame, eng, result, live, guards, gil, memo>>

Check(t) ==
  /\ pc[t] = "check"
  /\ pc' = [pc EXCEPT ![t] =
       IF SizesEqual(frame[t].points2D1, frame[t].points2D2)
       THEN "failure_dict" ELSE "thrown"]
  /\ UNCHANGED <<args, frame, eng, result, live, guards, gil, prng, memo>>

MakeFailureDict(t) ==
  /\ pc[t] = "failure_dict"
  /\ live' = [live EXCEPT ![t] = @ \cup {"failure_dict"}]
  /\ pc' = [pc EXCEPT ![t] = "release"]
  /\ UNCHANGED <<args, frame, eng, result, guards, gil, prng, memo>>

Release(t) ==
  /\ pc[t] = "release"
  /\ gil' = gil_scoped_release(t)
  /\ guards' = [guards EXCEPT ![t].release = TRUE, ![t].released = @ + 1]
  /\ pc' = [pc EXCEPT ![t] = IF frame[t].op = "E" THEN "normalize" ELSE "ransac"]
  /\ UNCHANGED <<args, frame, eng, result, live, prng, memo>>

\* Essential path only.
Normalize(t) ==
  /\ pc[t] = "normalize"
  /\ frame' = [frame EXCEPT
       ![t].world_points2D1 = WorldPoints(frame[t].camera1, frame[t].points2D1),
       ![t].world_points2D2 = WorldPoints(frame[t].camera2, frame[t].points2D2)]
  /\ pc' = [pc EXCEPT ![t] = "world_error"]
  /\ UNCHANGED <<args, eng, result, live, guards, gil, prng, memo>>

\* Essential path only.
ComputeWorldError(t) ==
  /\ pc[t] = "world_error"
  /\ frame' = [frame EXCEPT ![t].ransac_options =
       EssentialRansacOptions(frame[t].options, frame[t].camera1, frame[t].camera2)]
  /\ pc' = [pc EXCEPT ![t] = "ransac"]
  /\ UNCHANGED <<args, eng, result, live, guards, gil, prng, memo>>

\* Construct the engine.  The fundamental path estimates on the pixel points.
ConstructRansac(t) ==
  /\ pc[t] = "ransac"
  /\ LET f == frame[t]
         o == IF f.op = "E" THEN f.ransac_options ELSE FundamentalRansacOptions(f.options)
     IN  /\ frame' = [frame EXCEPT
               ![t].ransac_options = o,
               ![t].world_points2D1 = IF f.op = "E" THEN f.world_points2D1 ELSE f.points2D1,
               ![t].world_points2D2 = IF f.op = "E" THEN f.world_points2D2 ELSE f.points2D2]
         /\ eng' = [eng EXCEPT ![t] = InitialEngine(o)]
  /\ pc' = [pc EXCEPT ![t] = "estimate"]
  /\ UNCHANGED <<args, result, live, guards, gil, prng, memo>>

Correspondences(f) ==
  [i \in 1 .. Len(f.world_points2D1) |-> <<f.world_points2D1[i], f.world_points2D2[i]>>]

\* One trial of ransac.Estimate.
EstimateTrial(t) ==
  /\ pc[t] = "estimate"
  /\ TrialsLeft(eng[t])
  /\ LET f == frame[t]
         est == Estimators(f.op)
         X == Correspondences(f)
     IN  IF CanSample(est, X)
         THEN \E draw \in (IF Racing(t) THEN PRNGStates ELSE {prng}) :
                /\ eng' = [eng EXCEPT ![t] = Trial(eng[t], est, X, f.ransac_options, draw)]
                /\ prng' \in (IF Racing(t) THEN PRNGStates ELSE {PRNGAdvance(prng)})
         ELSE /\ eng' = [eng EXCEPT ![t] = EmptyTrial(eng[t])]
              /\ prng' = prng
  /\ UNCHANGED <<pc, args, frame, result, live, guards, gil, memo>>

\* ransac.Estimate returns its report.
EstimateDone(t) ==
  /\ pc[t] = "estimate"
  /\ ~TrialsLeft(eng[t])
  /\ frame' = [frame EXCEPT ![t].report =
       Report(eng[t], Len(frame[t].world_points2D1), frame[t].ransac_options)]
  /\ pc' = [pc EXCEPT ![t] = "branch"]
  /\ UNCHANGED <<args, eng, result, live, guards, gil, prng, memo>>

Branch(t) ==
  /\ pc[t] = "branch"
  /\ pc' = [pc EXCEPT ![t] =
       IF ReportFailed(frame[t].report) THEN "return_failure" ELSE "recover"]
  /\ UNCHANGED <<args, frame, eng, result, live, guards, gil, prng, memo>>

\* return failure_dict: the dictionary is moved into the return value.
ReturnFailure(t) ==
  /\ pc[t] = "return_failure"
  /\ result' = [result EXCEPT ![t] = FailureDict]
  /\ frame' = [frame EXCEPT ![t].failure_dict_moved = TRUE]
  /\ pc' = [pc EXCEPT ![t] = "dtor_release"]
  /\ UNCHANGED <<args, eng, live, guards, gil, prng, memo>>

\* Recover data from report; on the essential path collect the inlier points.
Recover(t) ==
  /\ pc[t] = "recover"
  /\ LET f == frame[t]
     IN  frame' = [frame EXCEPT
           ![t].inlier_world_points2D1 =
              IF f.op = "E" THEN InlierPoints(f.world_points2D1, f.report.inlier_mask)
              ELSE <<>>,
           ![t].inlier_world_points2D2 =
              IF f.op = "E" THEN InlierPoints(f.world_points2D2, f.report.inlier_mask)
              ELSE <<>>]
  /\ pc' = [pc EXCEPT ![t] = IF frame[t].op = "E" THEN "pose" ELSE "convert"]
  /\ UNCHANGED <<args, eng, result, live, guards, gil, prng, memo>>

\* Essential path only: pose from essential matrix.
Pose(t) ==
  /\ pc[t] = "pose"
  /\ LET f == frame[t]
         p == PoseFromEssentialMatrix(f.report.model, f.inlier_world_points2D1,
                                      f.inlier_world_points2D2)
     IN  frame' = [frame EXCEPT
           ![t].cam2_from_cam1 = [rotation |-> Quaterniond(p.R), translation |-> p.t],
           ![t].pose_runs = @ + 1]
  /\ pc' = [pc EXCEPT ![t] = "convert"]
  /\ UNCHANGED <<args, eng, result, live, guards, gil, prng, memo>>

Convert(t) ==
  /\ pc[t] = "convert"
  /\ frame' = [frame EXCEPT ![t].inliers = ConvertMask(frame[t].report.inlier_mask)]
  /\ pc' = [pc EXCEPT ![t] = "acquire"]
  /\ UNCHANGED <<args, eng, result, live, guards, gil, prng, memo>>

\* py::gil_scoped_acquire acquire: waits until the lock is free.
Acquire(t) ==
  /\ pc[t] = "acquire"
  /\ gil = NoThread
  /\ gil' = gil_scoped_acquire(t)
  /\ guards' = [guards EXCEPT ![t].acquire = TRUE, ![t].acquired = @ + 1]
  /\ pc' = [pc EXCEPT ![t] = "success_dict"]
  /\ UNCHANGED <<args, frame, eng, result, live, prng, memo>>

\* Success output dictionary, moved into the return value.
ReturnSuccess(t) ==
  /\ pc[t] = "success_dict"
  /\ live' = [live EXCEPT ![t] = @ \cup {"success_dict"}]
  /\ LET f == frame[t]
     IN  result' = [result EXCEPT ![t] =
           IF f.op = "E"
           THEN EssentialSuccessDict(f.report.model, f.cam2_from_cam1,
                                     f.report.support.num_inliers, f.inliers)
           ELSE FundamentalSuccessDict(f.report.model,
                                       f.report.support.num_inliers, f.inliers)]
  /\ pc' = [pc EXCEPT ![t] = "dtor_acquire"]
  /\ UNCHANGED <<args, frame, eng, guards, gil, prng, memo>>

\* ~gil_scoped_acquire
DtorAcquire(t) ==
  /\ pc[t] = "dtor_acquire"
  /\ gil' = NoThread
  /\ guards' = [guards EXCEPT ![t].acquire = FALSE, ![t].released = @ + 1]
  /\ pc' = [pc EXCEPT ![t] = "dtor_release"]
  /\ UNCHANGED <<args, frame, eng, result, live, prng, memo>>

\* ~gil_scoped_release: waits until the lock is free and takes it back.
DtorRelease(t) ==
  /\ pc[t] = "dtor_release"
  /\ gil = NoThread
  /\ gil' = t
  /\ guards' = [guards EXCEPT ![t].release = FALSE, ![t].acquired = @ + 1]
  /\ pc' = [pc EXCEPT ![t] = "dtor_failure_dict"]
  /\ UNCHANGED <<args, frame, eng, result, live, prng, memo>>

\* ~failure_dict: drops the reference unless the dictionary was moved out.
DtorFailureDict(t) ==
  /\ pc[t] = "dtor_failure_dict"
  /\ live' = [live EXCEPT ![t] =
       IF frame[t].failure_dict_moved THEN @ ELSE @ \ {"failure_dict"}]
  /\ pc' = [pc EXCEPT ![t] = "returned"]
  /\ UNCHANGED <<args, frame, eng, result, guards, gil, prng, memo>>

\* Control is back in host code, which takes the result (or the exception)
\* and later lets go of the interpreter lock.
Finish(t, record) ==
  /\ pc[t] \in {"returned", "thrown"}
  /\ gil' = IF gil = t THEN NoThread ELSE gil
  /\ live' = [live EXCEPT ![t] = {}]
  /\ memo' = IF record /\ pc[t] = "returned" /\ ~memo.set
             THEN [set |-> TRUE, in |-> args[t], out |-> result[t]]
             ELSE memo
  /\ args' = [args EXCEPT ![t] = NoArgs]
  /\ frame' = [frame EXCEPT ![t] = EmptyFrame]
  /\ eng' = [eng EXCEPT ![t] = InitialEngine(DefaultOptions)]
  /\ result' = [result EXCEPT ![t] = NoResult]
  /\ guards' = [guards EXCEPT ![t] = NoGuards]
  /\ pc' = [pc EXCEPT ![t] = "idle"]
  /\ UNCHANGED prng

Resume(t) == Finish(t, FALSE)

\* Resume, remembering the call and its report for later comparison.
ResumeRecording(t) == Finish(t, TRUE) /\ pc[t] = "returned" /\ ~memo.set

Step(t) ==
  \/ AssembleOptions(t)
  \/ Seed(t)
  \/ Check(t)
  \/ MakeFailureDict(t)
  \/ Release(t)
  \/ Normalize(t)
  \/ ComputeWorldError(t)
  \/ ConstructRansac(t)
  \/ EstimateTrial(t)
  \/ EstimateDone(t)
  \/ Branch(t)
  \/ ReturnFailure(t)
  \/ Recover(t)
  \/ Pose(t)
  \/ Convert(t)
  \/ Acquire(t)
  \/ ReturnSuccess(t)
  \/ DtorAcquire(t)
  \/ DtorRelease(t)
  \/ DtorFailureDict(t)
  \/ Resume(t)

\* One host thread, every input.
Next ==
  \/ CallOptions("t1", Inputs)
  \/ CallScalars("t1", Inputs)
  \/ Step("t1")

Spec == Init /\ [][Next]_vars

\* One host thread whose calls may be remembered, on a smaller set of inputs.
RepeatPairs ==
  {<<Ramp(n), Displaced(n, pattern)>> :
     n \in (MaxLen - 1) .. MaxLen, pattern \in {"mixed", "two"}}

RepeatOptions ==
  {ScalarOptions(<<e, 1>>, r, tr, MaxTrials, <<1, 2>>) :
     e \in {1, 2}, r \in {<<1, 4>>, <<1, 1>>}, tr \in {1, 2}}

RepeatInputs == CallArgs(RepeatPairs, {[f |-> 2, c |-> 2]}, RepeatOptions)

NextRepeat ==
  \/ CallOptions("t1", RepeatInputs)
  \/ CallScalars("t1", RepeatInputs)
  \/ Step("t1")
  \/ ResumeRecording("t1")

SpecRepeat == Init /\ [][NextRepeat]_vars

\* Two host threads calling concurrently, on a smaller set of inputs.
ConcurrentPairs ==
  {<<Ramp(MaxLen), Displaced(MaxLen, "two")>>,
   <<Ramp(MaxLen), Displaced(MaxLen - 1, "clean")>>,
   <<Ramp(FivePointMinSamples - 1), Displaced(FivePointMinSamples - 1, "clean")>>}

ConcurrentOptions == {ScalarOptions(<<1, 1>>, <<1, 4>>, 1, MaxTrials, <<1, 2>>)}

ConcurrentInputs == CallArgs(ConcurrentPairs, {DefaultCamera}, ConcurrentOptions)

NextConcurrent ==
  \E t \in Threads :
    \/ CallOptions(t, ConcurrentInputs)
    \/ CallScalars(t, ConcurrentInputs)
    \/ Step(t)

SpecConcurrent == Init /\ [][NextConcurrent]_vars

(***************************************************************************)
(* Properties.                                                             *)
(***************************************************************************)
InCall(t) == pc[t] # "idle"

Mismatched(t) == InCall(t) /\ Len(args[t].points2D1) # Len(args[t].points2D2)

Matched(t) == InCall(t) /\ Len(args[t].points2D1) = Len(args[t].points2D2)

\* C1: a call with lists of different lengths runs no further than the size
\* check, where it throws: it produces no result, normalizes nothing, runs
\* no trial and no pose recovery; and only such a call throws.
C1_MismatchThrowsFirst ==
  \A t \in Threads :
    /\ Mismatched(t) =>
         /\ pc[t] \in {"scalars", "seed", "check", "thrown"}
         /\ result[t] = NoResult
         /\ frame[t].world_points2D1 = <<>> /\ frame[t].world_points2D2 = <<>>
         /\ eng[t].num_trials = 0
         /\ frame[t].pose_runs = 0
    /\ pc[t] = "thrown" => Mismatched(t)
    /\ (InCall(t) /\ pc[t] \notin {"scalars", "seed", "check"}) =>
         (Mismatched(t) <=> pc[t] = "thrown")

C1_Witness ==
  \E t \in Threads :
    /\ pc[t] = "thrown"
    /\ Len(args[t].points2D1) < Len(args[t].points2D2)
    /\ Len(args[t].points2D1) >= SevenPointMinSamples

CountTrue(b) == Cardinality({i \in 1 .. Len(b) : b[i]})

\* C2 as stated: every returned report, failed ones included, carries an
\* inlier mask as long as the inputs and the matching inlier count.
C2_EveryReportHasMask ==
  \A t \in Threads :
    pc[t] = "returned" =>
      /\ "inliers" \in DOMAIN result[t]
      /\ Len(result[t].inliers) = Len(args[t].points2D1)
      /\ result[t].num_inliers = CountTrue(result[t].inliers)

\* C2 amended: every returned report with success = true carries an inlier
\* mask as long as both input lists and an inlier count equal to the number
\* of set entries; a failed report carries the success flag alone.
C2_SuccessReportHasMask ==
  \A t \in Threads :
    pc[t] = "returned" =>
      IF result[t].success
      THEN /\ Len(result[t].inliers) = Len(args[t].points2D1)
           /\ Len(result[t].inliers) = Len(args[t].points2D2)
           /\ result[t].num_inliers = CountTrue(result[t].inliers)
      ELSE DOMAIN result[t] = {"success"}

C2_Witness ==
  \E t \in Threads :
    /\ pc[t] = "returned"
    /\ result[t].success
    /\ \E i, j \in 1 .. Len(result[t].inliers) :
         result[t].inliers[i] /\ ~result[t].inliers[j]

BelowMinimal(t) ==
  /\ Matched(t)
  /\ Len(args[t].points2D1) <
       (IF args[t].op = "E" THEN FivePointMinSamples ELSE SevenPointMinSamples)

\* C5: a call with equal-length lists shorter than the minimal sample never
\* throws, never enters the success path or pose recovery, and returns the
\* bare failure report.
C5_TooFewFails ==
  \A t \in Threads :
    BelowMinimal(t) =>
      /\ pc[t] \notin {"thrown", "recover", "pose", "convert", "acquire",
                       "success_dict", "dtor_acquire"}
      /\ frame[t].pose_runs = 0
      /\ pc[t] = "returned" => result[t] = [success |-> FALSE]

C5_Witness ==
  \E t \in Threads :
    /\ BelowMinimal(t)
    /\ pc[t] = "returned"
    /\ args[t].op = "F"
    /\ Len(args[t].points2D1) = SevenPointMinSamples - 1

RECURSIVE Filter(_, _)
Filter(X, keep) ==
  IF X = <<>> THEN <<>>
  ELSE (IF Head(keep) # 0 THEN <<Head(X)>> ELSE <<>>) \o Filter(Tail(X), Tail(keep))

Normalized(camera, points) ==
  [i \in 1 .. Len(points) |->
     Rat(points[i][1] - camera.c * points[i][2], camera.f * points[i][2])]

AfterEstimate(t) ==
  pc[t] \in {"branch", "return_failure", "recover", "pose", "convert", "acquire",
             "success_dict", "dtor_acquire", "dtor_release", "dtor_failure_dict",
             "returned"}

AfterPose(t) ==
  pc[t] \in {"convert", "acquire", "success_dict", "dtor_acquire"}
    \/ (pc[t] \in {"dtor_release", "dtor_failure_dict", "returned"} /\ frame[t].report.success)

\* C6: on the essential path pose recovery runs once when the engine
\* succeeds and never otherwise; it is given the normalized correspondences
\* whose mask entry is set, in input order; the success result holds E, the
\* pose, the inlier count and the mask, the failure result the flag alone.
C6_PoseIffSuccess ==
  \A t \in Threads :
    (InCall(t) /\ args[t].op = "E") =>
      LET f == frame[t]
          mask == f.report.inlier_mask
          in1 == Filter(Normalized(args[t].camera1, args[t].points2D1), mask)
          in2 == Filter(Normalized(args[t].camera2, args[t].points2D2), mask)
          p == PoseFromEssentialMatrix(f.report.model, in1, in2)
      IN  /\ f.pose_runs = (IF AfterPose(t) THEN 1 ELSE 0)
          /\ AfterPose(t) =>
               /\ f.report.success
               /\ f.inlier_world_points2D1 = in1
               /\ f.inlier_world_points2D2 = in2
               /\ f.cam2_from_cam1 = [rotation |-> <<"q", p.R>>, translation |-> p.t]
          /\ pc[t] = "returned" =>
               IF f.report.success
               THEN /\ DOMAIN result[t] =
                         {"success", "E", "cam2_from_cam1", "num_inliers", "inliers"}
                    /\ result[t].success
                    /\ result[t].E = f.report.model
                    /\ result[t].cam2_from_cam1 = f.cam2_from_cam1
               ELSE result[t] = [success |-> FALSE]

C6_Witness ==
  \E t \in Threads :
    /\ pc[t] = "returned"
    /\ args[t].op = "E"
    /\ result[t].success
    /\ result[t].num_inliers < Len(args[t].points2D1)
    /\ args[t].camera1 # args[t].camera2

EngineBuilt(t) == pc[t] = "estimate" \/ AfterEstimate(t)

\* C8: the engine's options are the caller's, except that on the essential
\* path max_error is half the sum of max_error / focal length over the two
\* cameras; the callee's copies of the points, cameras and options equal
\* the caller's throughout the call.
C8_EngineOptions ==
  \A t \in Threads :
    LET a == args[t]
        f == frame[t]
        e == a.options.max_error
        f1 == a.camera1.f
        f2 == a.camera2.f
    IN  /\ (InCall(t) /\ pc[t] # "scalars") =>
             /\ f.points2D1 = a.points2D1 /\ f.points2D2 = a.points2D2
             /\ f.camera1 = a.camera1 /\ f.camera2 = a.camera2
             /\ f.options = a.options
        /\ EngineBuilt(t) =>
             /\ f.ransac_options.min_inlier_ratio = a.options.min_inlier_ratio
             /\ f.ransac_options.min_num_trials = a.options.min_num_trials
             /\ f.ransac_options.max_num_trials = a.options.max_num_trials
             /\ f.ransac_options.confidence = a.options.confidence
             /\ f.ransac_options.max_error =
                  (IF a.op = "E"
                   THEN Rat(e[1] * (f1 + f2), 2 * e[2] * f1 * f2)
                   ELSE e)

C8_Witness ==
  \E t \in Threads :
    /\ pc[t] = "estimate"
    /\ args[t].op = "E"
    /\ args[t].camera1.f # args[t].camera2.f
    /\ frame[t].ransac_options.max_error # args[t].options.max_error

\* C9 as stated: while a call with lists of different lengths is in
\* progress the generator keeps its state.
C9_RejectedCallKeepsGenerator ==
  [][(\E t \in Threads : Mismatched(t)) => prng' = prng]_vars

\* C3: a call that returns with the inputs of a remembered earlier call
\* returns the remembered report, whatever calls ran in between.
C3_SameInputsSameReport ==
  \A t \in Threads :
    (pc[t] = "returned" /\ memo.set /\ memo.in = args[t]) => result[t] = memo.out

C3_Witness ==
  \E t \in Threads :
    /\ pc[t] = "returned"
    /\ memo.set
    /\ memo.in = args[t]
    /\ result[t].success
    /\ args[t].options.min_num_trials = 2

\* The report of a call that runs with no other call in progress.
RECURSIVE EstimateAlone(_, _, _, _, _)
EstimateAlone(e, est, X, opts, g) ==
  IF ~TrialsLeft(e) THEN Report(e, Len(X), opts)
  ELSE IF CanSample(est, X)
       THEN EstimateAlone(Trial(e, est, X, opts, g), est, X, opts, PRNGAdvance(g))
       ELSE EstimateAlone(EmptyTrial(e), est, X, opts, g)

CallAlone(a) ==
  LET X1 == IF a.op = "E" THEN Normalized(a.camera1, a.points2D1) ELSE a.points2D1
      X2 == IF a.op = "E" THEN Normalized(a.camera2, a.points2D2) ELSE a.points2D2
      opts == IF a.op = "E"
              THEN EssentialRansacOptions(a.options, a.camera1, a.camera2)
              ELSE a.options
      rep == EstimateAlone(InitialEngine(opts), Estimators(a.op),
                           [i \in 1 .. Len(X1) |-> <<X1[i], X2[i]>>], opts, SetPRNGSeed(0))
      p == PoseFromEssentialMatrix(rep.model, Filter(X1, rep.inlier_mask),
                                   Filter(X2, rep.inlier_mask))
      inl == [i \in 1 .. Len(rep.inlier_mask) |-> rep.inlier_mask[i] = 1]
  IN  IF ~rep.success THEN [success |-> FALSE]
      ELSE IF a.op = "E"
           THEN [success |-> TRUE, E |-> rep.model,
                 cam2_from_cam1 |-> [rotation |-> <<"q", p.R>>, translation |-> p.t],
                 num_inliers |-> rep.support.num_inliers, inliers |-> inl]
           ELSE [success |-> TRUE, F |-> rep.model,
                 num_inliers |-> rep.support.num_inliers, inliers |-> inl]

\* C4 as stated: no thread seeds or draws while another thread is between
\* its draws, and every call returns the report it returns when run alone.
C4_GeneratorGuarded ==
  \A t \in Threads :
    /\ DrawPending(t) => ~Racing(t)
    /\ pc[t] = "returned" => result[t] = CallAlone(args[t])

C7_TrialBounds ==
  \A t \in Threads :
    LET o == args[t].options
    IN  /\ EngineBuilt(t) =>
             /\ eng[t].num_trials <= o.max_num_trials
             /\ o.min_num_trials <= eng[t].budget
             /\ eng[t].budget <= o.max_num_trials
        /\ AfterEstimate(t) =>
             /\ frame[t].report.num_trials = eng[t].num_trials
             /\ o.min_num_trials <= frame[t].report.num_trials
             /\ frame[t].report.num_trials <= o.max_num_trials

\* C7: the engine never runs more trials than the caller's max_num_trials,
\* its budget stays between min_num_trials and max_num_trials, and it
\* returns after at least min_num_trials trials.  It terminates: every step
\* that stays in the engine counts one more trial, with or without
\* candidates, and once the budget is used up the next step returns.
C7_TrialsBoundedAndCounted ==
  /\ []C7_TrialBounds
  /\ [][\A t \in Threads :
          pc[t] = "estimate" =>
            IF TrialsLeft(eng[t])
            THEN /\ pc'[t] = "estimate"
                 /\ eng'[t].num_trials = eng[t].num_trials + 1
            ELSE pc'[t] = "branch"]_vars

C7_Witness ==
  \E t \in Threads :
    /\ pc[t] = "branch"
    /\ args[t].op = "F"
    /\ frame[t].report.success
    /\ frame[t].report.num_trials = args[t].options.min_num_trials
    /\ frame[t].report.num_trials = 2
    /\ frame[t].report.num_trials < args[t].options.max_num_trials

GilHeldAt ==
  {"scalars", "seed", "check", "thrown", "failure_dict", "release", "success_dict",
   "dtor_acquire", "dtor_failure_dict", "returned"}

GilReleasedAt ==
  {"normalize", "world_error", "ransac", "estimate", "branch", "return_failure",
   "recover", "pose", "convert", "acquire", "dtor_release"}

C10_LockState ==
  \A t \in Threads :
    InCall(t) =>
      /\ pc[t] \in GilHeldAt => gil = t
      /\ pc[t] \in GilReleasedAt => gil # t
      /\ guards[t].acquire => guards[t].release
      /\ pc[t] = "dtor_release" => ~guards[t].acquire
      /\ pc[t] \in {"returned", "thrown"} =>
           /\ ~guards[t].release /\ ~guards[t].acquire
           /\ guards[t].released = guards[t].acquired
           /\ live[t] = (IF pc[t] = "thrown" THEN {}
                         ELSE IF result[t].success THEN {"success_dict"}
                         ELSE {"failure_dict"})

\* C10: a thread inside a call holds the interpreter lock exactly outside
\* the stretch from normalization to the end of the conversion of the mask
\* (and while its guards are being undone), holds it whenever a host object
\* of the call is created or destroyed and when control is back at the
\* caller, and has then re-acquired the lock as often as it released it.
C10_LockDiscipline ==
  /\ []C10_LockState
  /\ [][\A t \in Threads : live'[t] # live[t] => gil = t]_vars

C10_Witness ==
  \E t, u \in Threads :
    /\ pc[t] = "returned"
    /\ guards[t].released = 2
    /\ pc[u] = "estimate"
    /\ eng[u].num_trials > 0

=============================================================================
